---- MODULE Spec2Model ----
(***************************************************************************)
(* Model of the dev-setup CLI (kitium-ai/dev-setup): the setup pipeline of *)
(* src/index.ts (six Listr steps over one SetupContext) and the helpers of *)
(* src/utils.ts it calls (safeExecuteCommand, getPackageManager, ...).     *)
(*                                                                         *)
(* External commands (execa / execFileSync) are the environment: each      *)
(* invocation succeeds or fails nondeterministically.  `lastRun` records   *)
(* the external command the last step ran (if any), `lastError` the        *)
(* structured error it raised or created (if any), and `hist` accumulates  *)
(* what the environment answered during the run.                           *)
(***************************************************************************)
EXTENDS Integers, Sequences, FiniteSets, TLC

VARIABLES config, host, context, pc, editorIdx, missingTools, exec, lastRun, lastError, hist, outcome

vars == <<config, host, context, pc, editorIdx, missingTools, exec, lastRun, lastError, hist, outcome>>

(***************************************************************************)
(* Bounds of the exploration                                               *)
(***************************************************************************)
\* the retry counter of safeExecuteCommand is unbounded when retries is NaN;
\* the model counts exactly up to this value and keeps only the parity of the
\* counter beyond it (see Count)
MaxAttempt == 4
\* largest number of package managers present on the explored hosts
MaxHostManagers == 1
\* largest number of CLI options given on the explored command lines
MaxOptions == 2
\* the longest list of tools passed to groupToolsByPriority
MaxTools == 3

(***************************************************************************)
(* Static data                                                             *)
(***************************************************************************)
Platforms == {"win32", "darwin", "linux"}

\* enum DevTool / enum Editor
DevTool == {"git", "node", "graphviz", "python"}
Editor == {"vscode", "cursor", "antigravity"}

\* the candidate lists of the two install steps, in declaration order
coreTools == <<"git", "node", "graphviz", "python">>
editors == << [name |-> "VSCode", tool |-> "vscode"],
              [name |-> "Cursor", tool |-> "cursor"],
              [name |-> "Antigravity", tool |-> "antigravity"] >>

Range(s) == {s[i] : i \in DOMAIN s}

\* an optional value: absent (undefined) or present with a value
None == [present |-> FALSE]
Some(v) == [present |-> TRUE, v |-> v]

\* a JavaScript number as far as the retry loop can tell: NaN or an integer
NaN == [nan |-> TRUE, n |-> 0]
Num(n) == [nan |-> FALSE, n |-> n]

\* JavaScript `a >= r` for an integer a and a number r: false when r is NaN
GreaterEq(a, r) == IF r.nan THEN FALSE ELSE a >= r.n

\* n + 1 for a counter kept exactly below cap; a counter that has reached
\* cap alternates between cap - 1 and cap, so that a loop that goes on
\* counting keeps changing the state
Count(n, cap) == IF n < cap THEN n + 1 ELSE cap - 1

(***************************************************************************)
(* utils.ts                                                                *)
(***************************************************************************)
\* detectOperatingSystem without the win32 case
detectOperatingSystemWithoutWin32(osPlatform) ==
  IF osPlatform \in {"darwin", "linux"} THEN osPlatform ELSE "linux"

\* detectOperatingSystem: os.platform() narrowed to the three supported values
detectOperatingSystem(osPlatform) ==
  IF osPlatform \in {"win32", "darwin", "linux"} THEN osPlatform ELSE "linux"

preferredOrder(platform) ==
  CASE platform = "win32" -> <<"chocolatey", "winget", "scoop">>
    [] platform = "darwin" -> <<"homebrew", "brew">>
    [] platform = "linux" -> <<"apt", "yum", "zypper", "pacman">>

AllManagers == {"chocolatey", "winget", "scoop", "homebrew", "brew",
                "apt", "yum", "zypper", "pacman"}

\* checks: the binary whose version probe stands for each manager
checks(m) ==
  CASE m = "chocolatey" -> "choco"
    [] m = "winget" -> "winget"
    [] m = "scoop" -> "scoop"
    [] m = "homebrew" -> "brew"
    [] m = "brew" -> "brew"
    [] m = "apt" -> "apt-get"
    [] m = "yum" -> "yum"
    [] m = "zypper" -> "zypper"
    [] m = "pacman" -> "pacman"

\* a set of managers whose probes succeed on some host: managers probed
\* through the same binary succeed together
ProbeConsistent(present) ==
  \A m1, m2 \in AllManagers :
    checks(m1) = checks(m2) => (m1 \in present <=> m2 \in present)

\* the managers the forEach callback probes: those no early return skips
ProbedManagers(platform) ==
  { m \in AllManagers :
      /\ ~(platform = "win32" /\ m \notin {"chocolatey", "winget", "scoop"})
      /\ ~(platform = "darwin" /\ m \notin {"homebrew", "brew"})
      /\ ~(platform = "linux" /\ m \in {"chocolatey", "winget", "scoop", "homebrew", "brew"}) }

\* detectPackageManagerAvailability without the platform tests
detectPackageManagerAvailabilityUnfiltered(platform, present) ==
  { m \in AllManagers : m \in present }

\* detectPackageManagerAvailability: the managers probed for the platform
\* whose probe command succeeded (present = the managers whose probe succeeds)
detectPackageManagerAvailability(platform, present) ==
  { m \in AllManagers :
      /\ ~(platform = "win32" /\ m \notin {"chocolatey", "winget", "scoop"})
      /\ ~(platform = "darwin" /\ m \notin {"homebrew", "brew"})
      /\ ~(platform = "linux" /\ m \in {"chocolatey", "winget", "scoop", "homebrew", "brew"})
      /\ m \in present }

\* getPackageManager returning the last available manager of the order
getPackageManagerLast(platform, present) ==
  LET availability == detectPackageManagerAvailability(platform, present)
      order == preferredOrder(platform)
      hits == { i \in DOMAIN order : order[i] \in availability }
  IN IF hits = {} THEN None
     ELSE Some(order[CHOOSE i \in hits : \A j \in hits : i >= j])

\* getPackageManager: first manager of the preferred order that is available
getPackageManager(platform, present) ==
  LET availability == detectPackageManagerAvailability(platform, present)
      order == preferredOrder(platform)
      hits == { i \in DOMAIN order : order[i] \in availability }
  IN IF hits = {} THEN None
     ELSE Some(order[CHOOSE i \in hits : \A j \in hits : i <= j])

\* createSetupContext leaving taskResults out of the context
createSetupContextWithoutTaskResults(osPlatform, present) ==
  LET platform == detectOperatingSystem(osPlatform)
  IN [ platform |-> platform,
       packageManager |-> getPackageManager(platform, present),
       installedTools |-> {},
       installedEditors |-> {},
       preflight |-> None ]

\* createSetupContext
createSetupContext(osPlatform, present) ==
  LET platform == detectOperatingSystem(osPlatform)
  IN [ platform |-> platform,
       packageManager |-> getPackageManager(platform, present),
       installedTools |-> {},
       installedEditors |-> {},
       taskResults |-> <<>>,
       preflight |-> None ]

\* validateSetupContext: context is an object whose platform is a string,
\* whose packageManager is a string unless it is nil, whose installedTools and
\* installedEditors are Sets and whose taskResults is an array.  A property
\* that is missing fails its test; undefined (None) is not such an object.
validateSetupContext(ctx) ==
  /\ {"platform", "packageManager", "installedTools", "installedEditors", "taskResults"}
       \subseteq DOMAIN ctx
  /\ ctx.platform \in STRING
  /\ ctx.packageManager.present => ctx.packageManager.v \in STRING
  /\ IsFiniteSet(ctx.installedTools)
  /\ IsFiniteSet(ctx.installedEditors)
  /\ DOMAIN ctx.taskResults = 1..Len(ctx.taskResults)

\* groupToolsByPriority listing the essential tools that occur in the input,
\* in the order of the essential list, each once
groupToolsByPriorityFromEssentialList(tools) ==
  [ essential |-> SelectSeq(<<"git", "node">>, LAMBDA t : t \in Range(tools)),
    optional |-> SelectSeq(tools, LAMBDA t : t \notin {"git", "node"}) ]

\* groupToolsByPriority: tools.filter on membership of [DevTool.Git, DevTool.Node]
groupToolsByPriority(tools) ==
  [ essential |-> SelectSeq(tools, LAMBDA t : t \in Range(<<"git", "node">>)),
    optional |-> SelectSeq(tools, LAMBDA t : t \notin Range(<<"git", "node">>)) ]

\* detectDiskSpaceMb: the free space in MB, or undefined when the probe
\* command fails or its output is not a finite number.  wmic (win32) reports
\* bytes, df -Pk reports KB.
detectDiskSpaceMb(platform, probe) ==
  IF probe.kind # "number" THEN None
  ELSE IF platform = "win32" THEN Some(probe.n \div (1024 * 1024))
  ELSE Some(probe.n \div 1024)

\* detectNetworkReachability: response.ok, false when fetch rejects or the
\* 2500 ms timer aborts it
detectNetworkReachability(probe) == probe = "ok"

\* runPreflightChecks warning at the threshold itself (<= 2048)
runPreflightChecksWarnAtThreshold(hasSudo, diskSpaceMb, networkReachable) ==
  LET w1 == IF ~hasSudo THEN <<"Elevated privileges not detected; some installs may fail.">> ELSE <<>>
      w2 == IF diskSpaceMb.present /\ diskSpaceMb.v <= 2048
            THEN <<"Low disk space detected (<2GB).">> ELSE <<>>
      w3 == IF ~networkReachable
            THEN <<"Network reachability check failed; offline mode recommended.">> ELSE <<>>
  IN [ hasSudo |-> hasSudo, diskSpaceMb |-> diskSpaceMb,
       networkReachable |-> networkReachable, warnings |-> w1 \o w2 \o w3 ]

\* runPreflightChecks: the warnings for the three probe results
\* (diskSpaceMb is an optional number)
runPreflightChecks(hasSudo, diskSpaceMb, networkReachable) ==
  LET w1 == IF ~hasSudo THEN <<"Elevated privileges not detected; some installs may fail.">> ELSE <<>>
      w2 == IF diskSpaceMb.present /\ diskSpaceMb.v < 2048
            THEN <<"Low disk space detected (<2GB).">> ELSE <<>>
      w3 == IF ~networkReachable
            THEN <<"Network reachability check failed; offline mode recommended.">> ELSE <<>>
  IN [ hasSudo |-> hasSudo, diskSpaceMb |-> diskSpaceMb,
       networkReachable |-> networkReachable, warnings |-> w1 \o w2 \o w3 ]

(***************************************************************************)
(* safeExecuteCommand (utils.ts)                                           *)
(*   exec.status: "idle" (no call in progress), "running" (inside the      *)
(*   while loop, about to invoke fn), "returned" (result available)        *)
(*   exec.options: the options of the call; retries, backoffMs, attempt:   *)
(*   the locals of the loop; calls, delays: the invocations of fn and the  *)
(*   delays awaited so far; result: "value" (fn's result) or "fallback"    *)
(***************************************************************************)
ExecOptions(retries, backoffMs, dryRun) ==
  [ retries |-> retries, backoffMs |-> backoffMs, dryRun |-> dryRun ]

ExecIdle == [ status |-> "idle", options |-> ExecOptions(None, None, FALSE),
              retries |-> Num(0), backoffMs |-> 300,
              attempt |-> 0, calls |-> 0, delays |-> <<>>, result |-> "none" ]

\* safeExecuteCommandEnter without the dry-run short-circuit
safeExecuteCommandEnterIgnoringDryRun(options) ==
  [ ExecIdle EXCEPT !.options = options, !.status = "running",
                    !.retries = IF options.retries.present
                                THEN options.retries.v ELSE Num(0),
                    !.backoffMs = IF options.backoffMs.present
                                  THEN options.backoffMs.v ELSE 300 ]

\* entry of safeExecuteCommand: the dry-run short-circuit and the defaults
\* (options.retries and options.backoffMs are optional numbers)
safeExecuteCommandEnter(options) ==
  IF options.dryRun
  THEN [ ExecIdle EXCEPT !.options = options, !.status = "returned", !.result = "fallback" ]
  ELSE [ ExecIdle EXCEPT !.options = options, !.status = "running",
                         !.retries = IF options.retries.present
                                     THEN options.retries.v ELSE Num(0),
                         !.backoffMs = IF options.backoffMs.present
                                       THEN options.backoffMs.v ELSE 300 ]

\* Pow2 growing linearly instead of doubling
Pow2Linear(k) == IF k <= 0 THEN 1 ELSE k + 1

Pow2(k) == IF k <= 0 THEN 1 ELSE 2 ^ k

\* safeExecuteCommandIterate rethrowing the last error once the retries are
\* exhausted, instead of returning fallback
safeExecuteCommandIterateRethrow(ex, ok) ==
  LET called == [ ex EXCEPT !.calls = Count(ex.calls, MaxAttempt + 1) ]
  IN IF ok
     THEN [ called EXCEPT !.status = "returned", !.result = "value" ]
     ELSE IF GreaterEq(ex.attempt, ex.retries)
          THEN [ called EXCEPT !.status = "raised" ]
          ELSE [ called EXCEPT
                   !.attempt = Count(ex.attempt, MaxAttempt),
                   !.delays = IF Len(ex.delays) < MaxAttempt
                              THEN Append(ex.delays, ex.backoffMs * Pow2(ex.attempt))
                              ELSE ex.delays ]

\* safeExecuteCommandIterate giving up on `attempt > retries`: one retry too many
safeExecuteCommandIterateOffByOne(ex, ok) ==
  LET called == [ ex EXCEPT !.calls = Count(ex.calls, MaxAttempt + 1) ]
  IN IF ok
     THEN [ called EXCEPT !.status = "returned", !.result = "value" ]
     ELSE IF ~ex.retries.nan /\ ex.attempt > ex.retries.n
          THEN [ called EXCEPT !.status = "returned", !.result = "fallback" ]
          ELSE [ called EXCEPT
                   !.attempt = Count(ex.attempt, MaxAttempt),
                   !.delays = IF Len(ex.delays) < MaxAttempt
                              THEN Append(ex.delays, ex.backoffMs * Pow2(ex.attempt))
                              ELSE ex.delays ]

\* safeExecuteCommandIterate without the return of fn's result: a successful
\* invocation is followed by the next attempt while attempts remain
safeExecuteCommandIterateDroppingResult(ex, ok) ==
  LET called == [ ex EXCEPT !.calls = Count(ex.calls, MaxAttempt + 1) ]
  IN IF GreaterEq(ex.attempt, ex.retries)
     THEN [ called EXCEPT !.status = "returned",
                          !.result = IF ok THEN "value" ELSE "fallback" ]
     ELSE [ called EXCEPT
              !.attempt = Count(ex.attempt, MaxAttempt),
              !.delays = IF Len(ex.delays) < MaxAttempt
                         THEN Append(ex.delays, ex.backoffMs * Pow2(ex.attempt))
                         ELSE ex.delays ]

\* one iteration of the while loop: fn is invoked and fulfils (ok) or rejects
safeExecuteCommandIterate(ex, ok) ==
  LET called == [ ex EXCEPT !.calls = Count(ex.calls, MaxAttempt + 1) ]
  IN IF ok
     THEN [ called EXCEPT !.status = "returned", !.result = "value" ]
     ELSE IF GreaterEq(ex.attempt, ex.retries)
          THEN [ called EXCEPT !.status = "returned", !.result = "fallback" ]
          ELSE [ called EXCEPT
                   !.attempt = Count(ex.attempt, MaxAttempt),
                   !.delays = IF Len(ex.delays) < MaxAttempt
                              THEN Append(ex.delays, ex.backoffMs * Pow2(ex.attempt))
                              ELSE ex.delays ]

(***************************************************************************)
(* utils/errors.ts: the KitiumError factories (message, help, docs and     *)
(* context are not modelled) and extractErrorMetadata                      *)
(***************************************************************************)
KitiumError(code, kind, severity, statusCode, retryable) ==
  [ kitium |-> TRUE, code |-> code, kind |-> kind, severity |-> severity,
    statusCode |-> statusCode, retryable |-> retryable ]

createSetupContextError ==
  KitiumError("devsetup/context", "context_error", "error", 400, FALSE)
createOSDetectionError ==
  KitiumError("devsetup/os-detection", "os_detection_error", "error", 500, TRUE)
createPackageManagerError ==
  KitiumError("devsetup/package-manager", "package_manager_error", "warning", 503, TRUE)
createToolInstallationError ==
  KitiumError("devsetup/tool-installation", "tool_installation_error", "warning", 422, TRUE)
createEditorInstallationError ==
  KitiumError("devsetup/editor-installation", "editor_installation_error", "warning", 422, TRUE)
createCommandExecutionError ==
  KitiumError("devsetup/command-execution", "command_execution_error", "warning", 422, TRUE)
createToolUnavailableError ==
  KitiumError("devsetup/tool-unavailable", "tool_unavailable_error", "error", 503, TRUE)
createConfigurationError ==
  KitiumError("devsetup/configuration", "configuration_error", "error", 400, FALSE)

\* a thrown value that is not a KitiumError (e.g. the Error execa rejects with)
PlainError ==
  [ kitium |-> FALSE, code |-> "", kind |-> "", severity |-> "", statusCode |-> 0,
    retryable |-> FALSE ]

\* extractErrorMetadata never recognising a KitiumError (e.g. the class of
\* another copy of the library): the defaults for every input
extractErrorMetadataDefaults(error) ==
  [ code |-> "devsetup/unknown", kind |-> "unknown", severity |-> "error",
    statusCode |-> 500, retryable |-> FALSE ]

\* extractErrorMetadata recognising a KitiumError by its kind property instead
\* of instanceof
extractErrorMetadataDuckTyped(error) ==
  IF error.kitium \/ error.kind # ""
  THEN [ code |-> error.code, kind |-> error.kind, severity |-> error.severity,
         statusCode |-> error.statusCode, retryable |-> error.retryable ]
  ELSE [ code |-> "devsetup/unknown", kind |-> "unknown", severity |-> "error",
         statusCode |-> 500, retryable |-> FALSE ]

\* extractErrorMetadata: the fields of a KitiumError, the defaults otherwise
extractErrorMetadata(error) ==
  IF error.kitium
  THEN [ code |-> error.code, kind |-> error.kind, severity |-> error.severity,
         statusCode |-> error.statusCode, retryable |-> error.retryable ]
  ELSE [ code |-> "devsetup/unknown", kind |-> "unknown", severity |-> "error",
         statusCode |-> 500, retryable |-> FALSE ]

(***************************************************************************)
(* index.ts: configuration and task results                                *)
(***************************************************************************)
TaskResult(name, status, message) ==
  [ name |-> name, status |-> status, message |-> message ]

\* a task result pushed without a message
NoMessage == "<none>"

\* `${tool.label} Installation`
ToolTaskName(label) ==
  CASE label = "git" -> "git Installation"
    [] label = "node" -> "node Installation"
    [] label = "graphviz" -> "graphviz Installation"
    [] label = "python" -> "python Installation"

\* `${editor.name} Installation`
EditorTaskName(name) ==
  CASE name = "VSCode" -> "VSCode Installation"
    [] name = "Cursor" -> "Cursor Installation"
    [] name = "Antigravity" -> "Antigravity Installation"

\* optional array .includes(x): false when the array is absent
Includes(list, x) == list.present /\ x \in Range(list.v)

\* the retries option both steps pass to safeExecuteCommand: config.maxRetries ?? 1
RetriesOption == IF config.maxRetries.present THEN config.maxRetries ELSE Some(Num(1))

NoCommand == [ cmd |-> "none", targets |-> {}, ok |-> TRUE ]
Command(cmd, targets, ok) == [ cmd |-> cmd, targets |-> targets, ok |-> ok ]

\* the commands that install or configure something on the host
InstallCommands == {"core-install", "editor-install", "corepack-enable"}

\* hist.available: the identifiers isToolAvailable reported present;
\* hist.installed: the targets of install commands that succeeded;
\* hist.failed: some external command invocation of the run failed
HistInit == [ available |-> {}, installed |-> {}, failed |-> FALSE ]

\* hist after an external command ran: a successful install command installed
\* its targets; any failed invocation is remembered
Ran(h, run) ==
  [ h EXCEPT !.installed = IF run.ok /\ run.cmd \in {"core-install", "editor-install"}
                           THEN @ \cup run.targets ELSE @,
             !.failed = @ \/ ~run.ok ]

\* Push inserting at the front (unshift)
PushFront(ctx, result) == [ ctx EXCEPT !.taskResults = <<result>> \o @ ]

Push(ctx, result) == [ ctx EXCEPT !.taskResults = Append(@, result) ]

\* the probe results (privilege, free disk space in MB, network) explored for
\* the Preflight Checks step of a run
PreflightProbes ==
  { [ hasSudo |-> FALSE, diskSpaceMb |-> Some(1024), networkReachable |-> FALSE ] }

(***************************************************************************)
(* Step 1: Preflight Checks                                                *)
(***************************************************************************)
PreflightChecks ==
  /\ pc = "preflight"
  /\ \E probe \in PreflightProbes :
       context' = Push([ context EXCEPT !.preflight =
                           Some(runPreflightChecks(probe.hasSudo, probe.diskSpaceMb,
                                                   probe.networkReachable)) ],
                       TaskResult("Preflight Checks", "success", NoMessage))
  /\ pc' = "os"
  /\ lastRun' = NoCommand /\ lastError' = None
  /\ UNCHANGED <<config, host, editorIdx, missingTools, exec, hist, outcome>>

(***************************************************************************)
(* Step 2: Check Operating System (detectOperatingSystem cannot throw, so  *)
(* the catch branch is never taken)                                        *)
(***************************************************************************)
CheckOperatingSystem ==
  /\ pc = "os"
  /\ detectOperatingSystem(host.osPlatform) \in Platforms
  /\ context' = Push(context, TaskResult("OS Detection", "success", NoMessage))
  /\ pc' = "pm"
  /\ lastRun' = NoCommand /\ lastError' = None
  /\ UNCHANGED <<config, host, editorIdx, missingTools, exec, hist, outcome>>

(***************************************************************************)
(* Step 3: Check Package Manager                                           *)
(***************************************************************************)
\* the version probe of the verification callback runs a command for every
\* manager except 'brew', which no branch of the callback matches
ProbeRunsCommand(manager) ==
  manager \in {"chocolatey", "homebrew", "apt", "yum", "zypper", "pacman", "winget", "scoop"}

\* what follows the awaited safeExecuteCommand: its result is not inspected
\* and it never rejects, so the .catch callback does not run
\* PackageManagerChecked writing its entry over the last one
PackageManagerCheckedOverwriting(ctx) ==
  [ ctx EXCEPT !.taskResults[Len(ctx.taskResults)] =
                 TaskResult("Package Manager Check", "success", NoMessage) ]

\* PackageManagerChecked clearing the manager chosen at creation
PackageManagerCheckedClearingManager(ctx) ==
  Push([ ctx EXCEPT !.packageManager = None ],
       TaskResult("Package Manager Check", "success", NoMessage))

PackageManagerChecked(ctx) ==
  Push(ctx, TaskResult("Package Manager Check", "success", NoMessage))

\* PackageManagerMissing only logging the error it caught
PackageManagerMissingUnrecorded(ctx) == ctx

\* the catch block of the step: createPackageManagerError was thrown because
\* no manager is available, and its message is recorded
PackageManagerMissing(ctx) ==
  Push(ctx, TaskResult("Package Manager Check", "failed",
                       "Package manager operation failed: detection (unknown) - No package manager available for this platform"))

CheckPackageManager ==
  /\ pc = "pm"
  /\ LET manager == getPackageManager(context.platform, host.managers)
     IN IF ~manager.present
        THEN \* createPackageManagerError is thrown and caught by the step
             /\ context' = PackageManagerMissing(context)
             /\ pc' = "core"
             /\ exec' = exec
        ELSE LET entered == safeExecuteCommandEnter(ExecOptions(RetriesOption, None, config.dryRun))
             IN IF entered.status = "returned"
                THEN /\ context' = PackageManagerChecked(context)
                     /\ pc' = "core"
                     /\ exec' = exec
                ELSE /\ context' = context
                     /\ pc' = "pm_exec"
                     /\ exec' = entered
  /\ lastRun' = NoCommand
  /\ lastError' = IF getPackageManager(context.platform, host.managers).present
                  THEN None ELSE Some(createPackageManagerError)
  /\ UNCHANGED <<config, host, editorIdx, missingTools, hist, outcome>>

\* one invocation of the verification callback inside safeExecuteCommand
PackageManagerAttempt ==
  /\ pc = "pm_exec"
  /\ exec.status = "running"
  /\ LET manager == getPackageManager(context.platform, host.managers).v
     IN \E ok \in IF ProbeRunsCommand(manager) THEN BOOLEAN ELSE {TRUE} :
          LET run == IF ProbeRunsCommand(manager)
                     THEN Command("pm-version", {manager}, ok) ELSE NoCommand
              next == safeExecuteCommandIterate(exec, ok)
          IN /\ lastRun' = run
             /\ lastError' = None
             /\ hist' = Ran(hist, run)
             /\ IF next.status = "returned"
                THEN /\ context' = PackageManagerChecked(context)
                     /\ pc' = "core"
                     /\ exec' = ExecIdle
                ELSE /\ context' = context
                     /\ pc' = pc
                     /\ exec' = next
  /\ UNCHANGED <<config, host, editorIdx, missingTools, outcome>>

(***************************************************************************)
(* Step 4: Install Core Tools                                              *)
(***************************************************************************)
\* the tools of a candidate sequence that satisfy a test, in order
FilterSeq(seq, keep) == SelectSeq(seq, LAMBDA t : t \in keep)

\* Blocked letting an allowlisted identifier through
BlockedUnlessAllowed(id) ==
  Includes(config.blocklist, id) /\ ~Includes(config.allowlist, id)

\* Blocked consulted for the core tools only
BlockedToolsOnly(id) == Includes(config.blocklist, id) /\ id \in DevTool

Blocked(id) == Includes(config.blocklist, id)
NotAllowed(id) == config.allowlist.present /\ id \notin Range(config.allowlist.v)

\* coreTools.filter(...): the tools that pass the block and allow lists
policyFiltered ==
  FilterSeq(coreTools, { t \in DevTool : ~Blocked(t) /\ ~NotAllowed(t) })

\* the 'Blocked by policy' results the filter callback pushes, in tool order
RECURSIVE BlockedResults(_)
BlockedResults(seq) ==
  IF seq = <<>> THEN <<>>
  ELSE (IF Blocked(Head(seq))
        THEN << TaskResult(ToolTaskName(Head(seq)), "skipped", "Blocked by policy") >>
        ELSE <<>>) \o BlockedResults(Tail(seq))

\* the branch of the install callback that runs an install command;
\* every other platform / manager combination only logs a warning
CoreInstallRunsCommand(ctx) ==
  \/ ctx.platform = "win32" /\ ctx.packageManager = Some("chocolatey")
  \/ ctx.platform = "win32" /\ ctx.packageManager = Some("winget")
  \/ ctx.platform = "darwin" /\ ctx.packageManager = Some("homebrew")
  \/ ctx.platform = "linux" /\ ctx.packageManager.present

\* CoreToolsInstalled rebuilding the context without its preflight result
CoreToolsInstalledClearingPreflight(ctx, missing) ==
  Push([ ctx EXCEPT !.installedTools = @ \cup Range(missing), !.preflight = None ],
       TaskResult("Core Tools Installation", "success", NoMessage))

\* what follows the awaited safeExecuteCommand of the install: its result is
\* not inspected, the missing tools are recorded as installed
CoreToolsInstalled(ctx, missing) ==
  Push([ ctx EXCEPT !.installedTools = @ \cup Range(missing) ],
       TaskResult("Core Tools Installation", "success", NoMessage))

\* The step up to the first invocation of the install callback.  Nothing in
\* the try block can throw (isToolAvailable and safeExecuteCommand catch every
\* failure), so the catch branch of the step is never taken.
InstallCoreTools ==
  /\ pc = "core"
  /\ lastRun' = NoCommand /\ lastError' = None
  /\ IF Includes(config.skipTools, "git") /\ Includes(config.skipTools, "node")
     THEN /\ pc' = "editors"
          /\ UNCHANGED <<context, missingTools, exec, hist>>
     ELSE \E available \in SUBSET Range(policyFiltered) :
            \* isToolAvailable answers TRUE exactly for the tools in `available`
            LET filtered == [ context EXCEPT !.taskResults = @ \o BlockedResults(coreTools) ]
                missing == FilterSeq(policyFiltered, Range(policyFiltered) \ available)
            IN /\ hist' = [ hist EXCEPT !.available = @ \cup available ]
               /\ IF Len(policyFiltered) = 0
                  THEN /\ context' = Push(filtered, TaskResult("Core Tools Installation",
                                                     "skipped", "Policy enforcement"))
                       /\ pc' = "editors"
                       /\ UNCHANGED <<missingTools, exec>>
                  ELSE IF Len(missing) = 0
                  THEN /\ context' = Push([ filtered EXCEPT !.installedTools = @ \cup Range(coreTools) ],
                                          TaskResult("Core Tools Installation",
                                                     "skipped", "Already installed"))
                       /\ pc' = "editors"
                       /\ UNCHANGED <<missingTools, exec>>
                  ELSE LET entered == safeExecuteCommandEnter(ExecOptions(RetriesOption, None, config.dryRun))
                       IN IF entered.status = "returned"
                          THEN /\ context' = CoreToolsInstalled(filtered, missing)
                               /\ pc' = "editors"
                               /\ UNCHANGED <<missingTools, exec>>
                          ELSE /\ context' = filtered
                               /\ pc' = "core_exec"
                               /\ missingTools' = missing
                               /\ exec' = entered
  /\ UNCHANGED <<config, host, editorIdx, outcome>>

\* one invocation of the install callback inside safeExecuteCommand
CoreToolsAttempt ==
  /\ pc = "core_exec"
  /\ exec.status = "running"
  /\ LET runs == ~config.dryRun /\ CoreInstallRunsCommand(context)
     IN \E ok \in IF runs THEN BOOLEAN ELSE {TRUE} :
          LET run == IF runs THEN Command("core-install", Range(missingTools), ok)
                     ELSE NoCommand
              next == safeExecuteCommandIterate(exec, ok)
          IN /\ lastRun' = run
             /\ lastError' = None
             /\ hist' = Ran(hist, run)
             /\ IF next.status = "returned"
                THEN /\ context' = CoreToolsInstalled(context, missingTools)
                     /\ pc' = "editors"
                     /\ exec' = ExecIdle
                     /\ missingTools' = <<>>
                ELSE /\ context' = context
                     /\ pc' = pc
                     /\ exec' = next
                     /\ missingTools' = missingTools
  /\ UNCHANGED <<config, host, editorIdx, outcome>>

(***************************************************************************)
(* Step 5: Install Editors (a nested, sequential Listr: one leaf per       *)
(* editor)                                                                 *)
(***************************************************************************)
\* Object.keys(Editor).length
EditorCount == Cardinality(Editor)

InstallEditors ==
  /\ pc = "editors"
  /\ IF config.skipEditors.present /\ Len(config.skipEditors.v) = EditorCount
     THEN pc' = "corepack" /\ editorIdx' = editorIdx
     ELSE pc' = "editor_leaf" /\ editorIdx' = 1
  /\ lastRun' = NoCommand /\ lastError' = None
  /\ UNCHANGED <<config, host, context, missingTools, exec, hist, outcome>>

\* the branch of the leaf that runs an install command; on linux without a
\* package manager no branch matches and nothing is run
EditorInstallRunsCommand(ctx) ==
  \/ ctx.platform = "win32"
  \/ ctx.platform = "darwin"
  \/ ctx.platform = "linux" /\ ctx.packageManager.present

\* SkippedEditor without the per-editor test of the leaf
SkippedEditorNever(id) == FALSE

\* config.skipEditors?.includes(editor.tool)
SkippedEditor(id) == Includes(config.skipEditors, id)

\* the leaf of one editor: policy checks, availability check, install
EditorLeaf(editor) ==
  IF Blocked(editor.tool)
  THEN /\ context' = Push(context, TaskResult(EditorTaskName(editor.name), "skipped",
                                              "Blocked by policy"))
       /\ lastRun' = NoCommand /\ lastError' = None
       /\ hist' = hist
  ELSE IF NotAllowed(editor.tool) \/ SkippedEditor(editor.tool)
  THEN /\ context' = context
       /\ lastRun' = NoCommand /\ lastError' = None
       /\ hist' = hist
  ELSE \E available \in BOOLEAN :
         IF available
         THEN \* isToolAvailable(editor.package) answered TRUE
              /\ context' = [ context EXCEPT !.installedEditors = @ \cup {editor.tool} ]
              /\ lastRun' = NoCommand /\ lastError' = None
              /\ hist' = [ hist EXCEPT !.available = @ \cup {editor.tool} ]
         ELSE \E ok \in IF EditorInstallRunsCommand(context) THEN BOOLEAN ELSE {TRUE} :
                LET run == IF EditorInstallRunsCommand(context)
                           THEN Command("editor-install", {editor.tool}, ok)
                           ELSE NoCommand
                IN /\ lastRun' = run
                   /\ lastError' = IF ok THEN None ELSE Some(createEditorInstallationError)
                   /\ hist' = Ran(hist, run)
                   /\ context' =
                        IF ok
                        THEN Push([ context EXCEPT !.installedEditors = @ \cup {editor.tool} ],
                                  TaskResult(EditorTaskName(editor.name), "success", NoMessage))
                        ELSE Push(context, TaskResult(EditorTaskName(editor.name), "skipped",
                                                      "Command failed"))

InstallEditorLeaf ==
  /\ pc = "editor_leaf"
  /\ EditorLeaf(editors[editorIdx])
  /\ IF editorIdx < Len(editors)
     THEN pc' = pc /\ editorIdx' = editorIdx + 1
     ELSE pc' = "corepack" /\ editorIdx' = 0
  /\ UNCHANGED <<config, host, missingTools, exec, outcome>>

(***************************************************************************)
(* Step 6: Setup Node.js Tools, and the end of tasks.run                   *)
(***************************************************************************)
CorepackEnabled(ctx) ==
  Push(ctx, TaskResult("Corepack Setup", "success", NoMessage))

\* CorepackFailed without the push of the failed entry
CorepackFailedUnrecorded(ctx) == ctx

CorepackFailed(ctx) ==
  Push(ctx, TaskResult("Corepack Setup", "failed", "Command failed"))

\* corepack enable run whatever dryRun is
CorepackRunsCommandAlways == TRUE

\* `if (!config.dryRun) await execa('corepack', ['enable'])`
CorepackRunsCommand == ~config.dryRun

SetupNodeTools ==
  /\ pc = "corepack"
  /\ \E ok \in IF CorepackRunsCommand THEN BOOLEAN ELSE {TRUE} :
       LET run == IF CorepackRunsCommand THEN Command("corepack-enable", {}, ok)
                  ELSE NoCommand
       IN /\ lastRun' = run
          /\ hist' = Ran(hist, run)
          /\ IF ok
             THEN /\ context' = CorepackEnabled(context)
                  /\ lastError' = None
                  /\ outcome' = "completed"
             ELSE \* the catch classifies the failure, records it and rethrows:
                  \* tasks.run rejects and process.exit(1) follows
                  /\ context' = CorepackFailed(context)
                  /\ lastError' = Some(createCommandExecutionError)
                  /\ outcome' = "aborted"
  /\ pc' = "done"
  /\ UNCHANGED <<config, host, editorIdx, missingTools, exec>>

(***************************************************************************)
(* The runs explored                                                       *)
(***************************************************************************)
Option(choices) == {None} \cup { Some(c) : c \in choices }

SkipToolsChoices == { <<"git", "node">>, <<"python", "graphviz">>, <<"git">> }
SkipEditorsChoices == { <<"cursor">>,
                        <<"vscode", "cursor", "antigravity">>,
                        <<"antigravity", "cursor", "vscode">>,
                        <<"vscode", "cursor", "antigravity", "vscode">>,
                        <<"vscode", "vscode", "cursor">> }
AllowChoices == { <<"git">>, <<"cursor">>, <<"git", "node", "vscode">> }
BlockChoices == { <<"cursor">>, <<"python", "git">>, <<"python", "vscode">> }
MaxRetriesChoices == { Num(0), Num(2), NaN }

\* the number of CLI options a configuration was built from
OptionsGiven(c) ==
  Cardinality({ f \in {"skipTools", "skipEditors", "allowlist", "blocklist", "maxRetries"} :
                  c[f].present })
  + (IF c.dryRun THEN 1 ELSE 0)

\* the SetupConfig built by the action handler from the CLI options
Configs ==
  { c \in [ skipTools : Option(SkipToolsChoices),
            skipEditors : Option(SkipEditorsChoices),
            allowlist : Option(AllowChoices),
            blocklist : Option(BlockChoices),
            maxRetries : Option(MaxRetriesChoices),
            dryRun : BOOLEAN ] :
      OptionsGiven(c) <= MaxOptions }

\* the hosts: os.platform() and the package managers whose probe succeeds
Hosts ==
  { h \in [ osPlatform : Platforms, managers : SUBSET AllManagers ] :
      /\ h.managers \subseteq Range(preferredOrder(h.osPlatform))
      /\ ProbeConsistent(h.managers)
      /\ Cardinality({ checks(m) : m \in h.managers }) <= MaxHostManagers }

Init ==
  /\ config \in Configs
  /\ host \in Hosts
  /\ context = createSetupContext(host.osPlatform, host.managers)
  /\ pc = "preflight"
  /\ editorIdx = 0
  /\ missingTools = <<>>
  /\ exec = ExecIdle
  /\ lastRun = NoCommand
  /\ lastError = None
  /\ hist = HistInit
  /\ outcome = "running"

Next ==
  \/ PreflightChecks
  \/ CheckOperatingSystem
  \/ CheckPackageManager
  \/ PackageManagerAttempt
  \/ InstallCoreTools
  \/ CoreToolsAttempt
  \/ InstallEditors
  \/ InstallEditorLeaf
  \/ SetupNodeTools

Spec == Init /\ [][Next]_vars

\* every step eventually runs unless the run has ended: Listr starts the next
\* task as soon as the previous one settles
FairSpec == Spec /\ WF_vars(Next)

(***************************************************************************)
(* safeExecuteCommand called on its own, with any options and any          *)
(* behaviour of fn                                                         *)
(***************************************************************************)
ExecOptionChoices ==
  [ retries : Option({NaN} \cup { Num(n) : n \in (-1)..(MaxAttempt - 1) }),
    backoffMs : Option({100, 500}),
    dryRun : BOOLEAN ]

DefaultConfig ==
  [ skipTools |-> None, skipEditors |-> None, allowlist |-> None, blocklist |-> None,
    maxRetries |-> None, dryRun |-> FALSE ]

InitExec ==
  /\ config = DefaultConfig
  /\ host = [ osPlatform |-> "linux", managers |-> {} ]
  /\ context = createSetupContext(host.osPlatform, host.managers)
  /\ pc = "lib"
  /\ editorIdx = 0
  /\ missingTools = <<>>
  /\ exec = ExecIdle
  /\ lastRun = NoCommand
  /\ lastError = None
  /\ hist = HistInit
  /\ outcome = "running"

SafeExecuteCommandCall ==
  /\ pc = "lib"
  /\ exec.status = "idle"
  /\ \E options \in ExecOptionChoices : exec' = safeExecuteCommandEnter(options)
  /\ UNCHANGED <<config, host, context, pc, editorIdx, missingTools, lastRun, lastError,
                 hist, outcome>>

SafeExecuteCommandInvoke ==
  /\ pc = "lib"
  /\ exec.status = "running"
  /\ \E ok \in BOOLEAN :
       /\ exec' = safeExecuteCommandIterate(exec, ok)
       /\ lastRun' = Command("fn", {}, ok)
  /\ UNCHANGED <<config, host, context, pc, editorIdx, missingTools, lastError,
                 hist, outcome>>

NextExec ==
  \/ SafeExecuteCommandCall
  \/ SafeExecuteCommandInvoke

SpecExec == InitExec /\ [][NextExec]_vars

(***************************************************************************)
(* The functions of utils.ts behind createSetupContext and                 *)
(* runPreflightChecks, called on their own on any host                     *)
(***************************************************************************)
\* values of os.platform()
OsPlatformChoices == {"win32", "darwin", "linux", "freebsd", "sunos"}

\* outcomes of the disk probe command: it fails, prints something that is not
\* a number, or prints a number (bytes on win32, KB elsewhere)
DiskProbeChoices ==
  { [kind |-> "failed", n |-> 0], [kind |-> "garbled", n |-> 0] }
    \cup { [kind |-> "number", n |-> n] : n \in {1048576, 2097151, 2097152, 4194304} }

\* outcomes of the HEAD request to the registry
NetworkProbeChoices == {"ok", "not-ok", "rejected"}

UtilsHosts ==
  { h \in [ osPlatform : OsPlatformChoices, managers : SUBSET AllManagers,
            privileged : BOOLEAN, disk : DiskProbeChoices,
            network : NetworkProbeChoices ] :
      ProbeConsistent(h.managers) }

InitUtils ==
  /\ config = DefaultConfig
  /\ host \in UtilsHosts
  /\ context = None
  /\ pc = "utils"
  /\ editorIdx = 0
  /\ missingTools = <<>>
  /\ exec = ExecIdle
  /\ lastRun = NoCommand
  /\ lastError = None
  /\ hist = HistInit
  /\ outcome = "running"

\* createSetupContext(); lastRun.targets records the managers whose probe was
\* run, hist.available what detectPackageManagerAvailability returned
CreateSetupContextCall ==
  /\ pc = "utils"
  /\ context' = createSetupContext(host.osPlatform, host.managers)
  /\ lastRun' = Command("probe", ProbedManagers(detectOperatingSystem(host.osPlatform)), TRUE)
  /\ hist' = [ hist EXCEPT !.available =
                 detectPackageManagerAvailability(detectOperatingSystem(host.osPlatform),
                                                  host.managers) ]
  /\ pc' = "created"
  /\ UNCHANGED <<config, host, editorIdx, missingTools, exec, lastError, outcome>>

\* runPreflightChecks() on the host's probe outcomes
RunPreflightChecksCall ==
  /\ pc = "created"
  /\ context' = [ context EXCEPT !.preflight =
                    Some(runPreflightChecks(host.privileged,
                                            detectDiskSpaceMb(host.osPlatform, host.disk),
                                            detectNetworkReachability(host.network))) ]
  /\ lastRun' = NoCommand
  /\ pc' = "checked"
  /\ UNCHANGED <<config, host, editorIdx, missingTools, exec, lastError, hist, outcome>>

NextUtils ==
  \/ CreateSetupContextCall
  \/ RunPreflightChecksCall

SpecUtils == InitUtils /\ [][NextUtils]_vars

(***************************************************************************)
(* extractErrorMetadata (utils/errors.ts) called on its own, on the errors *)
(* the factories build and on values that are not a KitiumError.  lastError*)
(* is the value caught, outcome the metadata returned.                     *)
(***************************************************************************)
\* the errors the eight factories build
FactoryErrors ==
  { createSetupContextError, createOSDetectionError, createPackageManagerError,
    createToolInstallationError, createEditorInstallationError,
    createCommandExecutionError, createToolUnavailableError, createConfigurationError }

\* values that fail `instanceof KitiumError`: null, undefined, a string or a
\* plain Error (no property set), and objects that carry properties named
\* like those of a KitiumError
NonKitiumValues ==
  [ kitium : {FALSE},
    code : {"", "devsetup/context"},
    kind : {"", "context_error", "unknown"},
    severity : {"", "warning", "error"},
    statusCode : {0, 422},
    retryable : BOOLEAN ]

InitErrors ==
  /\ config = DefaultConfig
  /\ host = [ osPlatform |-> "linux", managers |-> {} ]
  /\ context = createSetupContext(host.osPlatform, host.managers)
  /\ pc = "errors"
  /\ editorIdx = 0
  /\ missingTools = <<>>
  /\ exec = ExecIdle
  /\ lastRun = NoCommand
  /\ lastError \in { Some(e) : e \in FactoryErrors \cup NonKitiumValues }
  /\ hist = HistInit
  /\ outcome = "running"

ExtractErrorMetadataCall ==
  /\ pc = "errors"
  /\ outcome' = extractErrorMetadata(lastError.v)
  /\ pc' = "classified"
  /\ UNCHANGED <<config, host, context, editorIdx, missingTools, exec, lastRun,
                 lastError, hist>>

NextErrors == ExtractErrorMetadataCall

SpecErrors == InitErrors /\ [][NextErrors]_vars

(***************************************************************************)
(* groupToolsByPriority (utils.ts) called on its own, on any list of tools.*)
(* missingTools is the list passed, outcome the two lists returned.        *)
(***************************************************************************)
ToolLists == UNION { [1..n -> DevTool] : n \in 0..MaxTools }

InitGroup ==
  /\ config = DefaultConfig
  /\ host = [ osPlatform |-> "linux", managers |-> {} ]
  /\ context = createSetupContext(host.osPlatform, host.managers)
  /\ pc = "group"
  /\ editorIdx = 0
  /\ missingTools \in ToolLists
  /\ exec = ExecIdle
  /\ lastRun = NoCommand
  /\ lastError = None
  /\ hist = HistInit
  /\ outcome = "running"

GroupToolsByPriorityCall ==
  /\ pc = "group"
  /\ outcome' = groupToolsByPriority(missingTools)
  /\ pc' = "grouped"
  /\ UNCHANGED <<config, host, context, editorIdx, missingTools, exec, lastRun,
                 lastError, hist>>

NextGroup == GroupToolsByPriorityCall

SpecGroup == InitGroup /\ [][NextGroup]_vars

(***************************************************************************)
(* The scheduling of the units of work by Listr.  Here pc gives the        *)
(* position of every unit: the six tasks of the top-level list and the     *)
(* three leaves of the list the Install Editors task returns.  A list      *)
(* starts a task once the tasks before it have finished, unless the list   *)
(* was created with concurrent: true.  What a unit does is reduced to its  *)
(* writes to taskResults and installedEditors.                             *)
(***************************************************************************)
TaskTitles == << "Preflight Checks", "Check Operating System", "Check Package Manager",
                 "Install Core Tools", "Install Editors", "Setup Node.js Tools" >>

\* title: editor.name of the nested list
LeafTitles == << "VSCode", "Cursor", "Antigravity" >>

\* the options of the top-level list: { renderer: 'default' }, so concurrent
\* keeps its default
TopLevelConcurrent == FALSE

\* the nested list created with concurrent: true
EditorsConcurrentOn == TRUE

\* the options of the nested list: { concurrent: false }
EditorsConcurrent == FALSE

\* the name under which a task pushes its result
StepResultName(title) ==
  CASE title = "Preflight Checks" -> "Preflight Checks"
    [] title = "Check Operating System" -> "OS Detection"
    [] title = "Check Package Manager" -> "Package Manager Check"
    [] title = "Install Core Tools" -> "Core Tools Installation"
    [] title = "Setup Node.js Tools" -> "Corepack Setup"

\* the statuses a task can push
StepStatuses(title) ==
  CASE title \in {"Preflight Checks", "Check Operating System"} -> {"success"}
    [] title = "Check Package Manager" -> {"success", "failed"}
    [] title = "Install Core Tools" -> {"success", "skipped"}
    [] title = "Setup Node.js Tools" -> {"success"}

\* the Install Editors task returns before creating the nested list
SkipsAllEditors ==
  config.skipEditors.present /\ Len(config.skipEditors.v) = EditorCount

InitListr ==
  /\ config \in { DefaultConfig,
                   [ DefaultConfig EXCEPT !.skipEditors = Some(<<"vscode", "cursor", "antigravity">>) ] }
  /\ host = [ osPlatform |-> "linux", managers |-> {} ]
  /\ context = createSetupContext(host.osPlatform, host.managers)
  /\ pc = [ u \in Range(TaskTitles) \cup Range(LeafTitles) |-> "pending" ]
  /\ editorIdx = 0
  /\ missingTools = <<>>
  /\ exec = ExecIdle
  /\ lastRun = NoCommand
  /\ lastError = None
  /\ hist = HistInit
  /\ outcome = "running"

\* the top-level list starts a task
ListrStartTask ==
  /\ \E i \in DOMAIN TaskTitles :
       /\ pc[TaskTitles[i]] = "pending"
       /\ TopLevelConcurrent \/ \A j \in 1..(i - 1) : pc[TaskTitles[j]] = "done"
       /\ pc' = [ pc EXCEPT ![TaskTitles[i]] = "running" ]
  /\ UNCHANGED <<config, host, context, editorIdx, missingTools, exec, lastRun, lastError,
                 hist, outcome>>

\* the promise of a task other than Install Editors settles
ListrFinishTask ==
  /\ \E title \in Range(TaskTitles) \ {"Install Editors"} :
       /\ pc[title] = "running"
       /\ \E status \in StepStatuses(title) :
            context' = Push(context, TaskResult(StepResultName(title), status, NoMessage))
       /\ pc' = [ pc EXCEPT ![title] = "done" ]
  /\ UNCHANGED <<config, host, editorIdx, missingTools, exec, lastRun, lastError, hist,
                 outcome>>

\* the nested list starts a leaf
ListrStartLeaf ==
  /\ pc["Install Editors"] = "running"
  /\ ~SkipsAllEditors
  /\ \E k \in DOMAIN LeafTitles :
       /\ pc[LeafTitles[k]] = "pending"
       /\ EditorsConcurrent \/ \A j \in 1..(k - 1) : pc[LeafTitles[j]] = "done"
       /\ pc' = [ pc EXCEPT ![LeafTitles[k]] = "running" ]
  /\ UNCHANGED <<config, host, context, editorIdx, missingTools, exec, lastRun, lastError,
                 hist, outcome>>

\* the promise of a leaf settles: the editor was present, was installed, or
\* its install failed
ListrFinishLeaf ==
  /\ \E k \in DOMAIN LeafTitles :
       /\ pc[LeafTitles[k]] = "running"
       /\ \E result \in {"present", "installed", "failed"} :
            context' =
              CASE result = "present" ->
                     [ context EXCEPT !.installedEditors = @ \cup {editors[k].tool} ]
                [] result = "installed" ->
                     Push([ context EXCEPT !.installedEditors = @ \cup {editors[k].tool} ],
                          TaskResult(EditorTaskName(editors[k].name), "success", NoMessage))
                [] result = "failed" ->
                     Push(context, TaskResult(EditorTaskName(editors[k].name), "skipped",
                                              "Command failed"))
       /\ pc' = [ pc EXCEPT ![LeafTitles[k]] = "done" ]
  /\ UNCHANGED <<config, host, editorIdx, missingTools, exec, lastRun, lastError, hist,
                 outcome>>

\* the Install Editors task finishes: at once when it skips all editors, else
\* when the nested list has run all its leaves
ListrFinishGroup ==
  /\ pc["Install Editors"] = "running"
  /\ SkipsAllEditors \/ \A k \in DOMAIN LeafTitles : pc[LeafTitles[k]] = "done"
  /\ pc' = [ pc EXCEPT !["Install Editors"] = "done" ]
  /\ UNCHANGED <<config, host, context, editorIdx, missingTools, exec, lastRun, lastError,
                 hist, outcome>>

NextListr ==
  \/ ListrStartTask
  \/ ListrFinishTask
  \/ ListrStartLeaf
  \/ ListrFinishLeaf
  \/ ListrFinishGroup

SpecListr == InitListr /\ [][NextListr]_vars

(***************************************************************************)
(* Properties                                                              *)
(***************************************************************************)
LastResult == context.taskResults[Len(context.taskResults)]

\* C1: with dryRun on, no step runs an install or configuration command
\* (core-tools install, editor install, corepack enable).
C1_DryRunRunsNoInstallCommand ==
  config.dryRun => lastRun.cmd \notin InstallCommands

\* C2: when a step's external command has failed on its last attempt, the step
\* has appended a failed or skipped entry that carries a message (never a
\* success entry, never nothing).
C2_FailureIsRecorded ==
  (lastRun.cmd # "none" /\ ~lastRun.ok /\ pc \notin {"pm_exec", "core_exec"})
    => /\ Len(context.taskResults) > 0
       /\ LastResult.status \in {"failed", "skipped"}
       /\ LastResult.message # NoMessage

\* C3: every member of installedTools is a core tool that isToolAvailable
\* reported available or that a successful install command targeted.
C3_InstalledToolsAreConfirmed ==
  context.installedTools \subseteq (DevTool \cap (hist.available \cup hist.installed))

\* C4: every member of installedEditors is an editor that isToolAvailable
\* reported available or that a successful, actually executed install command
\* targeted.
C4_InstalledEditorsAreConfirmed ==
  context.installedEditors \subseteq (Editor \cap (hist.available \cup hist.installed))

\* C5: the severity of the classified error decides whether the run aborts:
\* a warning never aborts the run, and an abort comes from an error of
\* severity error.
C5_SeverityDecidesAbort ==
  /\ (lastError.present /\ lastError.v.severity = "warning") => outcome # "aborted"
  /\ outcome = "aborted" => (lastError.present /\ lastError.v.severity = "error")

\* C6: when the corepack command raises, the run ends aborted and taskResults
\* is the earlier entries, unchanged and in order, followed by exactly one
\* failed 'Corepack Setup' entry, which stays the last entry.
C6_CorepackFailureAborts ==
  /\ [][ (pc = "corepack" /\ lastRun'.cmd = "corepack-enable" /\ ~lastRun'.ok)
           => /\ outcome' = "aborted"
              /\ Len(context'.taskResults) = Len(context.taskResults) + 1
              /\ SubSeq(context'.taskResults, 1, Len(context.taskResults)) = context.taskResults
              /\ \A i \in DOMAIN context.taskResults :
                   context.taskResults[i].name # "Corepack Setup" ]_vars
  /\ [](outcome = "aborted"
          => /\ pc = "done"
             /\ Len(context.taskResults) > 0
             /\ LastResult.name = "Corepack Setup"
             /\ LastResult.status = "failed")

C6_Witness ==
  /\ outcome = "aborted"
  /\ Len(context.taskResults) >= 7
  /\ lastRun.cmd = "corepack-enable" /\ ~lastRun.ok

\* C7: no failure of the package-manager check, of the core-tools install or
\* of an editor install stops the run: the Setup Node.js Tools step is
\* eventually reached in every run.
C7_NodeToolsStepIsReached == <>(pc \in {"corepack", "done"})

\* C8: on darwin with homebrew, without skip/allow/block options, dryRun off
\* and no command failing, the finished run is completed, installedTools holds
\* the four core tools and no entry is failed, whatever tools were present.
C8_HappyPathInstallsAllTools ==
  ( /\ context.platform = "darwin"
    /\ context.packageManager = Some("homebrew")
    /\ ~config.skipTools.present /\ ~config.skipEditors.present
    /\ ~config.allowlist.present /\ ~config.blocklist.present
    /\ ~config.dryRun
    /\ ~hist.failed
    /\ pc = "done" )
    => /\ outcome = "completed"
       /\ context.installedTools = DevTool
       /\ \A i \in DOMAIN context.taskResults : context.taskResults[i].status # "failed"

\* C9: with dryRun off and retries = N >= 0, an action that fails every time is
\* invoked exactly N+1 times, and then fallback is returned.
C9_FailingActionRunsRetriesPlusOne ==
  (exec.status # "idle" /\ ~exec.options.dryRun /\ ~exec.retries.nan /\ exec.retries.n >= 0)
    => /\ (exec.status = "returned" /\ exec.result = "fallback")
            => exec.calls = exec.retries.n + 1
       /\ exec.status = "running" => exec.calls <= exec.retries.n

C9_Witness ==
  /\ exec.status = "returned" /\ exec.result = "fallback"
  /\ ~exec.options.dryRun
  /\ exec.retries = Num(2) /\ exec.calls = 3

\* C10: a call with dryRun on returns fallback at once and never invokes the
\* action, whatever retries and backoffMs are.
C10_DryRunNeverInvokesAction ==
  exec.options.dryRun
    => /\ exec.status = "returned" /\ exec.result = "fallback"
       /\ exec.calls = 0 /\ exec.delays = <<>>

C10_Witness ==
  /\ exec.options.dryRun
  /\ exec.options.retries = Some(Num(2)) /\ exec.options.backoffMs = Some(500)
  /\ exec.status = "returned"

\* C11: safeExecuteCommand never raises: whatever the action does, a call that
\* has ended has returned, either the value of an invocation that succeeded or,
\* after an invocation that failed (or without any invocation), fallback.
C11_NeverPropagatesFailure ==
  /\ exec.status \in {"idle", "running", "returned"}
  /\ exec.status = "returned"
       => /\ exec.result \in {"value", "fallback"}
          /\ exec.result = "value" => (lastRun.cmd = "fn" /\ lastRun.ok)
          /\ exec.result = "fallback" => (exec.calls = 0 \/ (lastRun.cmd = "fn" /\ ~lastRun.ok))
  /\ (lastRun.cmd = "fn" /\ ~lastRun.ok /\ exec.status # "returned")
       => exec.status = "running"

C11_Witness ==
  /\ exec.status = "returned" /\ exec.result = "fallback"
  /\ exec.retries = Num(1) /\ exec.calls = 2
  /\ lastRun.cmd = "fn" /\ ~lastRun.ok

\* C12: the delay awaited before the k-th retry is backoffMs * 2^(k-1), with
\* backoffMs 300 when the option is absent; one delay follows each failed
\* invocation that is retried, so none precedes the first invocation and none
\* follows the invocation that ends the call.
C12_BackoffDoubles ==
  (exec.status # "idle" /\ ~exec.retries.nan)
    => LET base == IF exec.options.backoffMs.present THEN exec.options.backoffMs.v ELSE 300
       IN /\ \A k \in DOMAIN exec.delays : exec.delays[k] = base * 2 ^ (k - 1)
          /\ exec.calls = 0 => exec.delays = <<>>
          /\ exec.status = "running" => Len(exec.delays) = exec.calls
          /\ (exec.status = "returned" /\ exec.calls > 0)
               => Len(exec.delays) = exec.calls - 1
          /\ Len(exec.delays) <= (IF exec.retries.n > 0 THEN exec.retries.n ELSE 0)

C12_Witness ==
  /\ exec.status = "returned" /\ exec.result = "fallback"
  /\ ~exec.options.backoffMs.present
  /\ exec.retries = Num(3)
  /\ exec.delays = <<300, 600, 1200>>

\* taskResults holds an entry with this name, status and message
HasResult(name, status, message) ==
  \E i \in DOMAIN context.taskResults :
    context.taskResults[i] = TaskResult(name, status, message)

\* the position of an editor in the editors list
EditorIndex(id) == CHOOSE i \in DOMAIN editors : editors[i].tool = id

\* the name of the task result the install steps push for a candidate
TaskNameOf(id) ==
  IF id \in DevTool THEN ToolTaskName(id) ELSE EditorTaskName(editors[EditorIndex(id)].name)

\* the policy checks of the candidate's step have been evaluated for it: the
\* filter callback of Install Core Tools, or the candidate's editor leaf
PolicyDecided(id) ==
  IF id \in DevTool
  THEN /\ pc \in {"core_exec", "editors", "editor_leaf", "corepack", "done"}
       /\ ~(Includes(config.skipTools, "git") /\ Includes(config.skipTools, "node"))
  ELSE /\ ~(config.skipEditors.present /\ Len(config.skipEditors.v) = EditorCount)
       /\ \/ pc \in {"corepack", "done"}
          \/ pc = "editor_leaf" /\ editorIdx > EditorIndex(id)

\* C13: every install command runs inside safeExecuteCommand, so a failing
\* install (core tools or editor) with retries left is retried before any
\* outcome is recorded.
C13_InstallsGoThroughExecutor ==
  [][ lastRun'.cmd \in {"core-install", "editor-install"}
        => /\ exec.status = "running"
           /\ (~lastRun'.ok /\ ~exec.retries.nan /\ exec.attempt < exec.retries.n)
                => context'.taskResults = context.taskResults ]_vars

\* C14: a candidate whose identifier is in both allowlist and blocklist is
\* rejected as blocked: it is never the target of an install command, and
\* once its policy checks have run it has a 'Blocked by policy' entry.
C14_BlockWinsOverAllow ==
  \A id \in DevTool \cup Editor :
    (Includes(config.allowlist, id) /\ Includes(config.blocklist, id))
      => /\ lastRun.cmd \in {"core-install", "editor-install"} => id \notin lastRun.targets
         /\ id \notin Range(missingTools)
         /\ id \notin hist.installed
         /\ PolicyDecided(id) => HasResult(TaskNameOf(id), "skipped", "Blocked by policy")

C14_Witness ==
  /\ pc = "done"
  /\ Includes(config.allowlist, "vscode") /\ Includes(config.blocklist, "vscode")
  /\ HasResult("VSCode Installation", "skipped", "Blocked by policy")
  /\ hist.installed = {"git", "node"}

\* C15: whenever the blocklist names a core tool or editor, the finished run
\* has a skipped 'Blocked by policy' entry for it, whatever the other options.
C15_BlockedIsAlwaysRecorded ==
  pc = "done"
    => \A id \in DevTool \cup Editor :
         Includes(config.blocklist, id)
           => HasResult(TaskNameOf(id), "skipped", "Blocked by policy")

\* C16: an editor named in the blocklist is never a member of installedEditors.
C16_BlockedEditorNeverInstalled ==
  \A e \in Editor :
    Includes(config.blocklist, e) => e \notin context.installedEditors

C16_Witness ==
  /\ pc = "done"
  /\ Includes(config.blocklist, "cursor")
  /\ context.installedEditors = {"vscode", "antigravity"}
  /\ "vscode" \in hist.available

\* C17: with an allowlist present, a candidate that is not in it (and not
\* blocked) is rejected silently: never the target of an install command,
\* never in installedTools / installedEditors, no task result under its name.
C17_NotAllowlistedIsSilentlyRejected ==
  \A id \in DevTool \cup Editor :
    (config.allowlist.present /\ id \notin Range(config.allowlist.v)
       /\ ~Includes(config.blocklist, id))
      => /\ lastRun.cmd \in {"core-install", "editor-install"} => id \notin lastRun.targets
         /\ id \notin context.installedTools \cup context.installedEditors
         /\ \A i \in DOMAIN context.taskResults :
              context.taskResults[i].name # TaskNameOf(id)

\* C18: when skipEditors names all three editors, in any order and with or
\* without repeats, no editor install command runs and installedEditors stays
\* empty.
C18_SkipAllEditorsInstallsNone ==
  (config.skipEditors.present /\ Editor \subseteq Range(config.skipEditors.v))
    => /\ lastRun.cmd # "editor-install"
       /\ hist.installed \cap Editor = {}
       /\ context.installedEditors = {}

C18_Witness ==
  /\ pc = "done"
  /\ config.skipEditors = Some(<<"vscode", "cursor", "antigravity", "vscode">>)
  /\ context.installedTools = DevTool
  /\ context.installedEditors = {}

\* C19: a core tool listed in skipTools is never the target of an install
\* command and never added to installedTools, for every skipTools list.
C19_SkippedToolsAreNotInstalled ==
  \A t \in DevTool :
    Includes(config.skipTools, t)
      => /\ lastRun.cmd = "core-install" => t \notin lastRun.targets
         /\ t \notin context.installedTools

\* C20: every accepted candidate that isToolAvailable reported present is,
\* once its step has finished, in its installed set and has a skipped
\* 'Already installed' entry, and no install command targets it; also when
\* only some of the accepted candidates were present.
C20_AvailableIsRecordedAsAlreadyInstalled ==
  pc # "core_exec"
    => \A id \in hist.available :
         /\ lastRun.cmd \in {"core-install", "editor-install"} => id \notin lastRun.targets
         /\ id \in context.installedTools \cup context.installedEditors
         /\ HasResult(IF id \in DevTool THEN "Core Tools Installation" ELSE TaskNameOf(id),
                      "skipped", "Already installed")

\* C26: runPreflightChecks always returns a result whose warnings are exactly
\* one warning per unmet condition, in the order privilege, disk, network:
\* privilege iff hasSudo is false, disk iff the free space was measured and is
\* below 2048 MB (unknown or >= 2048 gives none), network iff the registry was
\* not reached; a probe that fails only degrades its own signal.
C26_PreflightWarnings ==
  pc = "checked"
    => /\ context.preflight.present
       /\ LET r == context.preflight.v
              measured == host.disk.kind = "number"
              mb == IF host.osPlatform = "win32" THEN host.disk.n \div 1048576
                    ELSE host.disk.n \div 1024
              privilege == IF host.privileged THEN <<>>
                           ELSE <<"Elevated privileges not detected; some installs may fail.">>
              disk == IF measured /\ mb < 2048
                      THEN <<"Low disk space detected (<2GB).">> ELSE <<>>
              network == IF host.network = "ok" THEN <<>>
                         ELSE <<"Network reachability check failed; offline mode recommended.">>
          IN /\ r.hasSudo = host.privileged
             /\ r.diskSpaceMb.present = measured
             /\ r.networkReachable = (host.network = "ok")
             /\ r.warnings = privilege \o disk \o network
             /\ (r.diskSpaceMb = Some(1024) /\ r.hasSudo /\ r.networkReachable)
                  => r.warnings = <<"Low disk space detected (<2GB).">>
             /\ (r.diskSpaceMb \in {Some(2048), Some(4096)} /\ r.hasSudo /\ r.networkReachable)
                  => r.warnings = <<>>

C26_Witness ==
  /\ pc = "checked"
  /\ host.disk.kind = "failed" /\ host.network = "rejected" /\ ~host.privileged
  /\ Len(context.preflight.v.warnings) = 2

\* C27: detectOperatingSystem always returns win32, darwin or linux: one of
\* the three is returned unchanged, any other os.platform() value gives linux.
C27_PlatformIsNormalised ==
  pc \in {"created", "checked"}
    => /\ context.platform \in {"win32", "darwin", "linux"}
       /\ host.osPlatform \in {"win32", "darwin", "linux"} => context.platform = host.osPlatform
       /\ host.osPlatform \notin {"win32", "darwin", "linux"} => context.platform = "linux"

C27_Witness ==
  pc = "created" /\ host.osPlatform = "freebsd" /\ context.platform = "linux"

C29_ProbesOnlyPlatformManagers ==
  pc = "created"
    => LET own == CASE context.platform = "win32" -> {"chocolatey", "winget", "scoop"}
                    [] context.platform = "darwin" -> {"homebrew", "brew"}
                    [] context.platform = "linux" -> {"apt", "yum", "zypper", "pacman"}
       IN /\ lastRun.cmd = "probe"
          /\ lastRun.targets \subseteq own
          /\ hist.available = own \cap host.managers

C29_Witness ==
  /\ pc = "created"
  /\ host.osPlatform = "linux"
  /\ host.managers = {"winget", "homebrew", "brew", "apt"}
  /\ hist.available = {"apt"}

\* C30: getPackageManager returns chocolatey for win32, homebrew for darwin and
\* apt for linux, a defined manager for every platform, and
\* createSetupContext().packageManager is that value.
C30_ManagerDefinedForEveryPlatform ==
  pc \in {"created", "checked"}
    => context.packageManager =
         Some(CASE context.platform = "win32" -> "chocolatey"
                [] context.platform = "darwin" -> "homebrew"
                [] context.platform = "linux" -> "apt")

\* C21: the entries of taskResults are in the declared execution order:
\* Preflight Checks, OS Detection, Package Manager Check, the blocked-tool
\* entries in the order git, node, graphviz, python, Core Tools Installation,
\* the editor entries in the order VSCode, Cursor, Antigravity, and Corepack
\* Setup last.
C21_ResultsFollowStepOrder ==
  LET rank(name) ==
        CASE name = "Preflight Checks" -> 1
          [] name = "OS Detection" -> 2
          [] name = "Package Manager Check" -> 3
          [] name = "git Installation" -> 4
          [] name = "node Installation" -> 5
          [] name = "graphviz Installation" -> 6
          [] name = "python Installation" -> 7
          [] name = "Core Tools Installation" -> 8
          [] name = "VSCode Installation" -> 9
          [] name = "Cursor Installation" -> 10
          [] name = "Antigravity Installation" -> 11
          [] name = "Corepack Setup" -> 12
          [] OTHER -> 0
      results == context.taskResults
  IN /\ \A i \in DOMAIN results : rank(results[i].name) >= 1
     /\ \A i \in 1..(Len(results) - 1) :
          rank(results[i].name) < rank(results[i + 1].name)
     /\ pc = "done" => results[Len(results)].name = "Corepack Setup"
     /\ Len(results) > 0 => results[1].name = "Preflight Checks"

C21_Witness ==
  /\ pc = "done"
  /\ config.blocklist = Some(<<"python", "git">>)
  /\ HasResult("git Installation", "skipped", "Blocked by policy")
  /\ HasResult("python Installation", "skipped", "Blocked by policy")
  /\ HasResult("Core Tools Installation", "success", NoMessage)
  /\ HasResult("Cursor Installation", "success", NoMessage)
  /\ HasResult("Antigravity Installation", "skipped", "Command failed")

\* C22: taskResults is append-only: every step leaves the entries appended
\* so far unchanged as a prefix of the new sequence, on success, on recovered
\* failure and on abort.
C22_ResultsAreAppendOnly ==
  [][ /\ Len(context'.taskResults) >= Len(context.taskResults)
      /\ SubSeq(context'.taskResults, 1, Len(context.taskResults)) = context.taskResults
    ]_vars

C22_Witness ==
  /\ outcome = "aborted"
  /\ HasResult("Package Manager Check", "failed",
               "Package manager operation failed: detection (unknown) - No package manager available for this platform")
  /\ HasResult("Antigravity Installation", "skipped", "Command failed")
  /\ HasResult("Core Tools Installation", "success", NoMessage)

\* C23: context.platform and context.packageManager keep the values given at
\* context creation in every state of the run: no step changes them.
C23_PlatformAndManagerAreFixed ==
  /\ context.platform = detectOperatingSystem(host.osPlatform)
  /\ context.packageManager = createSetupContext(host.osPlatform, host.managers).packageManager

C23_Witness ==
  /\ pc = "done"
  /\ context.platform = "linux" /\ context.packageManager = Some("yum")
  /\ HasResult("Package Manager Check", "success", NoMessage)
  /\ hist.installed # {}

\* C24: every run terminates, completed or aborted, for every maxRetries the
\* configuration can carry (absent, zero, positive, not a number).
C24_RunTerminates == <>(outcome \in {"completed", "aborted"})

\* C25: at most one unit of work is active at any time: a task starts only
\* after the tasks before it have finished, and an editor leaf only after the
\* leaves before it have finished, so no two units write taskResults or
\* installedEditors concurrently.
C25_OneUnitAtATime ==
  LET work == (Range(TaskTitles) \ {"Install Editors"}) \cup Range(LeafTitles)
  IN /\ Cardinality({ u \in work : pc[u] = "running" }) <= 1
     /\ \A i, j \in DOMAIN TaskTitles :
          (i < j /\ pc[TaskTitles[j]] # "pending") => pc[TaskTitles[i]] = "done"
     /\ \A i, j \in DOMAIN LeafTitles :
          (i < j /\ pc[LeafTitles[j]] # "pending") => pc[LeafTitles[i]] = "done"
     /\ \A k \in DOMAIN LeafTitles :
          /\ pc[LeafTitles[k]] = "running" => pc["Install Editors"] = "running"
          /\ pc[LeafTitles[k]] # "pending" => pc["Install Editors"] # "pending"
          /\ editors[k].tool \in context.installedEditors => pc[LeafTitles[k]] = "done"

C25_Witness ==
  /\ pc["Cursor"] = "running"
  /\ pc["VSCode"] = "done" /\ pc["Antigravity"] = "pending"
  /\ pc["Install Editors"] = "running"
  /\ context.installedEditors = {"vscode"}

\* C31: every error a factory builds has the severity and the retryability
\* fixed for its kind (context_error: error, not retryable; os_detection_error:
\* error, retryable; package_manager_error, tool_installation_error,
\* editor_installation_error, command_execution_error: warning, retryable;
\* tool_unavailable_error: error, retryable; configuration_error: error, not
\* retryable), and extractErrorMetadata reports that kind, severity and
\* retryability
C31_FactoriesFixSeverityAndRetryability ==
  (pc = "classified" /\ lastError.v.kitium) =>
    LET expected ==
          CASE lastError.v.kind = "context_error" -> <<"error", FALSE>>
            [] lastError.v.kind = "os_detection_error" -> <<"error", TRUE>>
            [] lastError.v.kind = "package_manager_error" -> <<"warning", TRUE>>
            [] lastError.v.kind = "tool_installation_error" -> <<"warning", TRUE>>
            [] lastError.v.kind = "editor_installation_error" -> <<"warning", TRUE>>
            [] lastError.v.kind = "command_execution_error" -> <<"warning", TRUE>>
            [] lastError.v.kind = "tool_unavailable_error" -> <<"error", TRUE>>
            [] lastError.v.kind = "configuration_error" -> <<"error", FALSE>>
            [] OTHER -> <<"no such kind", FALSE>>
    IN /\ <<lastError.v.severity, lastError.v.retryable>> = expected
       /\ outcome.kind = lastError.v.kind
       /\ <<outcome.severity, outcome.retryable>> = expected

C31_Witness ==
  /\ pc = "classified"
  /\ lastError.v = createToolUnavailableError
  /\ outcome.kind = "tool_unavailable_error"
  /\ outcome.severity = "error"
  /\ outcome.retryable

\* C32: for a value that is not a KitiumError, extractErrorMetadata returns
\* kind unknown, severity error and retryable false, whatever properties the
\* value carries
C32_NonKitiumIsUnknown ==
  (pc = "classified" /\ ~lastError.v.kitium) =>
    /\ outcome.kind = "unknown"
    /\ outcome.severity = "error"
    /\ outcome.retryable = FALSE

C32_Witness ==
  /\ pc = "classified"
  /\ ~lastError.v.kitium
  /\ lastError.v.kind = "context_error"
  /\ lastError.v.severity = "warning"
  /\ lastError.v.retryable
  /\ outcome.kind = "unknown"
  /\ outcome.retryable = FALSE
\* C33: the context createSetupContext returns satisfies validateSetupContext,
\* with installedTools, installedEditors and taskResults empty, and
\* validateSetupContext keeps holding after every step of the pipeline
C33_ContextStaysValid ==
  /\ validateSetupContext(context)
  /\ pc = "preflight" =>
       /\ context.installedTools = {}
       /\ context.installedEditors = {}
       /\ context.taskResults = <<>>

C33_Witness ==
  /\ pc = "done"
  /\ context.preflight.present
  /\ context.installedTools # {}
  /\ context.installedEditors # {}
  /\ Len(context.taskResults) >= 5
  /\ validateSetupContext(context)
\* C34: groupToolsByPriority splits its input in two: essential holds the
\* elements that are git or node, optional the others, each list keeps the
\* order of the input, and every element of the input (repeats included) is
\* in exactly one of the two lists; the empty input gives two empty lists
C34_GroupingPartitionsInput ==
  pc = "grouped" =>
    LET tools == missingTools
        e == outcome.essential
        o == outcome.optional
        Increasing(f) == \A i, j \in DOMAIN f : i < j => f[i] < f[j]
    IN /\ \A i \in DOMAIN e : e[i] \in {"git", "node"}
       /\ \A i \in DOMAIN o : o[i] \notin {"git", "node"}
       /\ \E f \in [DOMAIN e -> DOMAIN tools], g \in [DOMAIN o -> DOMAIN tools] :
            /\ Increasing(f) /\ Increasing(g)
            /\ \A i \in DOMAIN e : tools[f[i]] = e[i]
            /\ \A i \in DOMAIN o : tools[g[i]] = o[i]
            /\ Range(f) \cap Range(g) = {}
            /\ Range(f) \cup Range(g) = DOMAIN tools
       /\ tools = <<>> => (e = <<>> /\ o = <<>>)

C34_Witness ==
  /\ pc = "grouped"
  /\ missingTools = <<"node", "python", "git">>
  /\ outcome.essential = <<"node", "git">>
  /\ outcome.optional = <<"python">>
\* C35: with dryRun off, the invocation of the action that succeeds ends the
\* call: the call returns that invocation's result, not fallback, and the
\* action is not invoked again; the successful invocation is the j-th after
\* j-1 failed ones, each followed by one delay, with j <= retries + 1
C35_FirstSuccessEndsTheCall ==
  (lastRun.cmd = "fn" /\ lastRun.ok) =>
    /\ ~exec.options.dryRun
    /\ exec.status = "returned"
    /\ exec.result = "value"
    /\ ~exec.retries.nan =>
         /\ exec.calls = exec.attempt + 1
         /\ Len(exec.delays) = exec.calls - 1
         /\ exec.retries.n >= 0 => exec.calls <= exec.retries.n + 1

C35_Witness ==
  /\ lastRun.cmd = "fn" /\ lastRun.ok
  /\ exec.status = "returned" /\ exec.result = "value"
  /\ exec.retries = Num(3)
  /\ exec.calls = 3
  /\ Len(exec.delays) = 2
\* C36: when no package manager is available, the Check Package Manager step
\* appends a failed entry named Package Manager Check that carries a message,
\* runs no verification command (safeExecuteCommand is not entered), and the
\* run goes on with Install Core Tools
C36_MissingManagerIsRecordedAndRunContinues ==
  ~getPackageManager(context.platform, host.managers).present =>
    /\ pc # "pm_exec"
    /\ pc = "core" =>
         /\ LastResult.name = "Package Manager Check"
         /\ LastResult.status = "failed"
         /\ LastResult.message # NoMessage
         /\ Len(context.taskResults) = 3
         /\ lastRun = NoCommand
         /\ exec.status = "idle"
         /\ outcome = "running"
         /\ ENABLED InstallCoreTools

C36_Witness ==
  /\ pc = "core"
  /\ ~context.packageManager.present
  /\ LastResult = TaskResult("Package Manager Check", "failed",
                             "Package manager operation failed: detection (unknown) - No package manager available for this platform")
  /\ lastError = Some(createPackageManagerError)
\* C37: context.preflight is assigned once per run, by the first step and
\* before any install command: it is unset until Preflight Checks has run,
\* nothing has been installed or run by then, and from then on it holds the
\* result runPreflightChecks returned to that step, which no later step changes
C37_PreflightAssignedOnceByFirstStep ==
  /\ pc = "preflight" =>
       /\ ~context.preflight.present
       /\ context.taskResults = <<>>
       /\ lastRun = NoCommand
       /\ hist = HistInit
  /\ pc # "preflight" =>
       /\ context.preflight \in
            { Some(runPreflightChecks(p.hasSudo, p.diskSpaceMb, p.networkReachable)) :
                p \in PreflightProbes }
       /\ context.taskResults[1] = TaskResult("Preflight Checks", "success", NoMessage)
  /\ (lastRun.cmd \in InstallCommands \/ hist.installed # {}) => context.preflight.present

C37_Witness ==
  /\ pc = "done"
  /\ context.preflight.present
  /\ hist.installed \cap DevTool # {}
  /\ hist.installed \cap Editor # {}
  /\ lastRun.cmd = "corepack-enable"
\* C38: a core tool named in the blocklist is never in context.installedTools,
\* whatever the availability of the other core tools
C38_BlockedToolNeverInstalled ==
  \A tool \in DevTool :
    Includes(config.blocklist, tool) => tool \notin context.installedTools
\* C39: a skip list affects only the candidates it names: once the install
\* steps are over, every core tool not in skipTools and every editor not in
\* skipEditors that is not blocklisted and is admitted by the allowlist has
\* been processed: its availability was queried and it was found present, or
\* its installation was attempted (it is recorded as installed, or a task
\* result bears its name)
C39_SkipListsAffectOnlyNamedCandidates ==
  pc \in {"corepack", "done"} =>
    \A id \in DevTool \cup Editor :
      LET skipList == IF id \in DevTool THEN config.skipTools ELSE config.skipEditors
          processed ==
            \/ id \in hist.available
            \/ id \in context.installedTools \cup context.installedEditors
            \/ \E i \in DOMAIN context.taskResults :
                 context.taskResults[i].name = TaskNameOf(id)
      IN (~Includes(skipList, id) /\ ~Blocked(id) /\ ~NotAllowed(id)) => processed
\* C40: with dryRun on, a run is never aborted and ends completed: no step
\* raises out of the pipeline, no retry loop is entered, the next step can
\* always be taken until the last one has run, and the run is then completed,
\* whatever the platform, the managers, the policy and the outcome of the
\* commands that run
C40_DryRunAlwaysCompletes ==
  config.dryRun =>
    /\ outcome # "aborted"
    /\ pc \notin {"pm_exec", "core_exec"}
    /\ exec.status = "idle"
    /\ pc = "done" <=> outcome = "completed"
    /\ pc # "done" => ENABLED Next

C40_Witness ==
  /\ config.dryRun
  /\ pc = "done"
  /\ outcome = "completed"
  /\ hist.failed
  /\ ~context.packageManager.present
  /\ LastResult = TaskResult("Corepack Setup", "success", NoMessage)
====
